---- MODULE Spec2Model ----
(***************************************************************************)
(* Model of the SubtleCrypto dispatcher (src/src/SubtleCrypto.js).         *)
(*                                                                         *)
(* One public call is in flight at a time (the dispatch layer is           *)
(* cooperative and single threaded).  A call action models the whole       *)
(* synchronous part of a method, promise executor included; every          *)
(* callback attached with .then / .catch is a further action, run in the   *)
(* order of the microtask queue.  pc = "done" means that no callback of    *)
(* the call remains to be run.                                             *)
(*                                                                         *)
(* The algorithm modules, the registry, the normalizer and the key         *)
(* classes are not part of the source file; they are modelled from their   *)
(* contract: a module capability either raises an exception or returns a   *)
(* symbolic value (a ciphertext names the key handle and the plaintext it  *)
(* was made from, so that decrypt inverts encrypt and importKey inverts    *)
(* exportKey).                                                             *)
(*                                                                         *)
(* buffers holds the buffer objects of the call (the caller's octet        *)
(* arguments and the slices handed to the modules); written is the list    *)
(* of assignments the dispatcher has made to properties of Key objects.    *)
(***************************************************************************)
EXTENDS Integers, Sequences, FiniteSets, TLC

VARIABLES pc, call, promise, chain, thrown, invoked, checks, console, buffers, written

vars == <<pc, call, promise, chain, thrown, invoked, checks, console, buffers, written>>

(***************************************************************************)
(* Bounds and vocabularies                                                 *)
(***************************************************************************)
MaxHandle == 2

Handles == 1..MaxHandle

KeyTypes == {"secret", "private", "public"}

Formats == {"raw", "pkcs8", "spki", "jwk"}

recognizedKeyUsages ==
  {"encrypt", "decrypt", "sign", "verify", "deriveKey", "deriveBits", "wrapKey", "unwrapKey"}

Operations ==
  {"encrypt", "decrypt", "sign", "verify", "digest", "generateKey", "importKey",
   "exportKey", "deriveBits", "deriveKey", "wrapKey", "unwrapKey"}

(***************************************************************************)
(* Values                                                                  *)
(***************************************************************************)
Undefined == [kind |-> "undefined"]

Error(name, from) == [kind |-> "error", name |-> name, from |-> from]

IsError(v) == v.kind = "error"

InvalidAccessError == Error("InvalidAccessError", "dispatcher")

TypeError == Error("TypeError", "dispatcher")

SyntaxError == Error("SyntaxError", "dispatcher")

NotSupportedError(from) == Error("NotSupportedError", from)

Pending == [state |-> "pending", value |-> Undefined]

Resolved(v) == [state |-> "resolved", value |-> v]

Rejected(e) == [state |-> "rejected", value |-> e]

NoPromise == [state |-> "none", value |-> Undefined]

includes(list, u) == \E i \in DOMAIN list : list[i] = u

Algorithm(name) == [kind |-> "algorithm", name |-> name]

CryptoKey(type, extractable, name, usages, handle) ==
  [kind |-> "key", type |-> type, extractable |-> extractable,
   algorithm |-> [name |-> name], usages |-> usages, handle |-> handle]

CryptoKeyPair(publicKey, privateKey) ==
  [kind |-> "pair", publicKey |-> publicKey, privateKey |-> privateKey]

Bytes(id) == [kind |-> "bytes", id |-> id]

Buffer(object, bytes) == [object |-> object, bytes |-> bytes]

NoBuffer == Buffer(<<>>, Undefined)

sliceAliased(buffer) == buffer

slice(buffer) ==
  \* a new buffer object that holds the bytes the sliced one holds now
  Buffer(Append(buffer.object, "slice"), buffer.bytes)

(***************************************************************************)
(* Registry and normalizer                                                 *)
(***************************************************************************)
AlgorithmNames ==
  {"AES-GCM", "AES-KW", "RSASSA-PKCS1-v1_5", "SHA-256", "NOWRAP", "RSA-OAEP"}

KeyAlgorithmNames == {"AES-GCM", "AES-KW", "RSASSA-PKCS1-v1_5", "NOWRAP"}

supportedAlgorithms ==
  [op \in Operations |->
     CASE op \in {"encrypt", "decrypt"}       -> {"AES-GCM", "RSA-OAEP"}
       [] op \in {"sign", "verify"}           -> {"RSASSA-PKCS1-v1_5"}
       [] op = "digest"                       -> {"SHA-256"}
       [] op \in {"wrapKey", "unwrapKey"}     -> {"AES-KW", "NOWRAP"}
       [] op \in {"generateKey", "importKey"} -> KeyAlgorithmNames
       [] op = "exportKey"                    -> {"AES-GCM", "AES-KW", "RSASSA-PKCS1-v1_5"}
       [] OTHER                               -> {}]

Capabilities(name) ==
  CASE name = "AES-GCM"           -> {"encrypt", "decrypt", "generateKey", "importKey", "exportKey"}
    [] name = "AES-KW"            -> {"wrapKey", "unwrapKey", "encrypt", "decrypt", "generateKey",
                                      "importKey", "exportKey"}
    [] name = "RSASSA-PKCS1-v1_5" -> {"sign", "verify", "generateKey", "importKey", "exportKey"}
    [] name = "SHA-256"           -> {"digest"}
    [] name = "NOWRAP"            -> {"generateKey", "importKey"}
    [] name = "RSA-OAEP"          -> {"encrypt", "decrypt"}
    [] OTHER                      -> {}

normalize(op, alg) ==
  IF alg.kind # "algorithm" THEN NotSupportedError(op)
  ELSE IF alg.name \notin supportedAlgorithms[op] THEN NotSupportedError(op)
  ELSE [kind |-> "params", name |-> alg.name, op |-> op]

DedupFrom(list, i) ==
  \* the elements of list from position i on whose first occurrence is there
  LET RECURSIVE Go(_)
      Go(j) == IF j > Len(list) THEN <<>>
               ELSE IF \E k \in 1..(j - 1) : list[k] = list[j] THEN Go(j + 1)
               ELSE <<list[j]>> \o Go(j + 1)
  IN Go(i)

normalizeUsages(keyUsages) ==
  IF \E i \in DOMAIN keyUsages : keyUsages[i] \notin recognizedKeyUsages
  THEN [threw |-> TRUE, value |-> SyntaxError]
  ELSE [threw |-> FALSE, value |-> DedupFrom(keyUsages, 1)]

JsonWebKey(data) ==
  IF data.kind = "jwk" THEN data
  ELSE [kind |-> "jwk", type |-> "none", algorithm |-> [name |-> "none"], handle |-> 0]

(***************************************************************************)
(* Algorithm modules: a capability raises or returns.  b is the behaviour  *)
(* the module chooses in this invocation.                                  *)
(***************************************************************************)
Threw(e) == [threw |-> TRUE, value |-> e]

Returned(v) == [threw |-> FALSE, value |-> v]

Ciphertext(name, key, data) ==
  [kind |-> "cipher", alg |-> name, handle |-> key.handle, pt |-> data]

Opens(name, key, data) ==
  data.kind = "cipher" /\ data.alg = name /\ data.handle = key.handle

KeyData(format, key) ==
  IF format = "jwk"
  THEN [kind |-> "jwk", type |-> key.type, algorithm |-> key.algorithm, handle |-> key.handle]
  ELSE [kind |-> "keydata", format |-> format, type |-> key.type,
        algorithm |-> key.algorithm, handle |-> key.handle]

Parses(format, keyData) ==
  \/ format = "jwk" /\ keyData.kind = "jwk" /\ keyData.type \in KeyTypes
  \/ format # "jwk" /\ keyData.kind = "keydata" /\ keyData.format = format
  \/ format = "raw" /\ keyData.kind = "bytes"

ModuleUsages(b, type, keyUsages) ==
  \* the usages a module gives the key it makes: the ones asked for, none, or
  \* the ones it derives itself from the kind of key
  CASE b.usages = "asked" -> keyUsages
    [] b.usages = "empty" -> <<>>
    [] b.usages = "own" ->
         CASE type = "private" -> <<"sign">>
           [] type = "public" -> <<"verify">>
           [] OTHER -> <<"encrypt", "decrypt">>

Capability(cap, name, key, input, args, b) ==
  IF cap \notin Capabilities(name) THEN Threw(Error("TypeError", cap))
  ELSE IF b.throws THEN Threw(Error("OperationError", cap))
  ELSE CASE cap \in {"encrypt", "wrapKey"} -> Returned(Ciphertext(name, key, input))
         [] cap \in {"decrypt", "unwrapKey"} ->
              IF Opens(name, key, input) THEN Returned(input.pt)
              ELSE Threw(Error("OperationError", cap))
         [] cap = "sign" ->
              Returned([kind |-> "signature", alg |-> name, handle |-> key.handle, of |-> input])
         [] cap = "verify" ->
              Returned([kind |-> "boolean",
                        value |-> (args.signature =
                                     [kind |-> "signature", alg |-> name,
                                      handle |-> key.handle, of |-> input])])
         [] cap = "digest" -> Returned([kind |-> "digest", alg |-> name, of |-> input])
         [] cap = "exportKey" -> Returned(KeyData(args.format, key))
         [] cap = "importKey" ->
              IF Parses(args.format, input)
              THEN LET type == IF input.kind = "bytes" THEN "secret" ELSE input.type
                   IN Returned(CryptoKey(type, args.extractable, name,
                                         ModuleUsages(b, type, args.keyUsages),
                                         IF input.kind = "bytes" THEN input.id
                                         ELSE input.handle))
              ELSE Threw(Error("DataError", cap))
         [] cap = "generateKey" ->
              LET usages == ModuleUsages(b, IF b.pair THEN "private" ELSE b.type,
                                         args.keyUsages)
              IN IF b.pair
                 THEN Returned(CryptoKeyPair(
                        CryptoKey("public", TRUE, name, <<>>, b.handle),
                        CryptoKey("private", args.extractable, name, usages, b.handle)))
                 ELSE Returned(CryptoKey(b.type, args.extractable, name, usages, b.handle))

Invocation(cap, name, key, reads, out) ==
  \* reads: the buffer objects of the call that the capability was handed
  [cap |-> cap, module |-> name, key |-> key, reads |-> reads, out |-> out]

NoArgs == [none |-> TRUE]

(***************************************************************************)
(* Inputs                                                                  *)
(***************************************************************************)
Algorithms == {Algorithm(n) : n \in AlgorithmNames \cup {"ZZZ"}}

KeyUsageLists ==
  {<<"encrypt", "decrypt">>, <<"sign", "verify">>, <<"wrapKey", "unwrapKey">>,
   <<"decrypt", "wrapKey", "unwrapKey">>}

ArgUsageLists == KeyUsageLists \cup {<<>>, <<"sign", "sign">>, <<"sign", "bogus">>}

TypesOf(name) ==
  IF name = "RSASSA-PKCS1-v1_5" THEN {"public", "private"} ELSE {"secret"}

Keys ==
  {CryptoKey(t, e, n, u, h) :
     t \in KeyTypes, e \in BOOLEAN, n \in KeyAlgorithmNames, u \in KeyUsageLists, h \in Handles}

InputKeys == {k \in Keys : k.type \in TypesOf(k.algorithm.name)}

Data == {Bytes(h) : h \in Handles}

Throwing == [throws |-> TRUE, pair |-> FALSE, type |-> "secret", usages |-> "asked", handle |-> 1]

Honest == [throws |-> FALSE, pair |-> FALSE, type |-> "secret", usages |-> "asked", handle |-> 1]

Behaviours == {Throwing, Honest}

ImportBehaviours ==
  {[Honest EXCEPT !.throws = t, !.usages = u] :
     t \in BOOLEAN, u \in {"asked", "empty", "own"}}

GenerateBehaviours ==
  {[throws |-> t, pair |-> p, type |-> ty, usages |-> u, handle |-> 1] :
     t \in BOOLEAN, p \in BOOLEAN, ty \in KeyTypes, u \in {"asked", "empty"}}

(***************************************************************************)
(* The tests the dispatcher makes                                          *)
(***************************************************************************)
normalizationFailedNever(normalizedAlgorithm) == FALSE

normalizationFailed(normalizedAlgorithm) == IsError(normalizedAlgorithm)

algorithmMatchesAlways(normalizedAlgorithm, key) == TRUE

algorithmMatches(normalizedAlgorithm, key) ==
  normalizedAlgorithm.name = key.algorithm.name

usagePermitsAlways(key, usage) == TRUE

usagePermits(key, usage) == includes(key.usages, usage)

notExtractableNever(key) == FALSE

notExtractable(key) == key.extractable = FALSE

registeredForExport(key) == key.algorithm.name \in supportedAlgorithms["exportKey"]

(***************************************************************************)
(* The synchronous part of each public method.  The result is a frame:    *)
(* the promise returned, the promise the attached callbacks wait for,     *)
(* the exception that escaped the call, the capabilities invoked, the key *)
(* checks made, and the callback that runs next.                          *)
(***************************************************************************)
Settled(p, inv, chk) ==
  [promise |-> p, chain |-> NoPromise, thrown |-> Undefined,
   invoked |-> inv, checks |-> chk, written |-> <<>>, pc |-> "done"]

WriteUnwrappingKey(object, field, value) ==
  [object |-> "unwrappingKey", field |-> field, value |-> value]

Write(object, field, value) ==
  \* an assignment object.field = value made by the dispatcher
  [object |-> object, field |-> field, value |-> value]

Outcome(out) == IF out.threw THEN Rejected(out.value) ELSE Resolved(out.value)

Guarded(usage, algorithm, key, data, signature, b) ==
  \* encrypt, decrypt, sign and verify share this body; data and signature are
  \* the copies the method has taken of its octet arguments
  LET normalizedAlgorithm == normalize(usage, algorithm)
      args == IF usage = "verify" THEN [signature |-> signature.bytes] ELSE NoArgs
      reads == IF usage = "verify" THEN <<signature, data>> ELSE <<data>>
  IN IF normalizationFailed(normalizedAlgorithm)
     THEN Settled(Rejected(normalizedAlgorithm), <<>>, {})
     ELSE IF ~algorithmMatches(normalizedAlgorithm, key)
     THEN Settled(Rejected(InvalidAccessError), <<>>, {"name"})
     ELSE IF ~usagePermits(key, usage)
     THEN Settled(Rejected(InvalidAccessError), <<>>, {"name", "usage"})
     ELSE LET out == Capability(usage, normalizedAlgorithm.name, key, data.bytes, args, b)
          IN Settled(Outcome(out),
                     <<Invocation(usage, normalizedAlgorithm.name, key, reads, out)>>,
                     {"name", "usage"})

encrypt(algorithm, key, data, b) == Guarded("encrypt", algorithm, key, slice(data), NoBuffer, b)

decrypt(algorithm, key, data, b) == Guarded("decrypt", algorithm, key, slice(data), NoBuffer, b)

sign(algorithm, key, data, b) == Guarded("sign", algorithm, key, slice(data), NoBuffer, b)

verify(alg, key, signature, data, b) ==
  Guarded("verify", alg, key, slice(data), slice(signature), b)

digest(algorithm, data, b) ==
  LET normalizedAlgorithm == normalize("digest", algorithm)
  IN IF normalizationFailed(normalizedAlgorithm)
     THEN Settled(Rejected(normalizedAlgorithm), <<>>, {})
     ELSE LET copy == slice(data)
              out == Capability("digest", normalizedAlgorithm.name, Undefined, copy.bytes,
                                NoArgs, b)
          IN Settled(Outcome(out),
                     <<Invocation("digest", normalizedAlgorithm.name, Undefined, <<copy>>, out)>>,
                     {})

EmptyUsages(usages) == Len(usages) = 0

GeneratedInvalidKeyOnly(result) ==
  /\ result.kind = "key"
  /\ result.type \in {"secret", "private"}
  /\ EmptyUsages(result.usages)

GeneratedInvalid(result) ==
  \/ /\ result.kind = "key"
     /\ result.type \in {"secret", "private"}
     /\ EmptyUsages(result.usages)
  \/ /\ result.kind = "pair"
     /\ EmptyUsages(result.privateKey.usages)

generateKey(algorithm, extractable, keyUsages, b) ==
  LET normalizedAlgorithm == normalize("generateKey", algorithm)
  IN IF normalizationFailed(normalizedAlgorithm)
     THEN Settled(Rejected(normalizedAlgorithm), <<>>, {})
     ELSE LET out == Capability("generateKey", normalizedAlgorithm.name, Undefined, Undefined,
                                [extractable |-> extractable, keyUsages |-> keyUsages], b)
              inv == <<Invocation("generateKey", normalizedAlgorithm.name, Undefined, <<>>, out)>>
          IN IF out.threw THEN Settled(Rejected(out.value), inv, {})
             ELSE IF GeneratedInvalid(out.value) THEN Settled(Rejected(SyntaxError), inv, {})
             ELSE Settled(Resolved(out.value), inv, {})

deriveKey ==
  [promise |-> NoPromise, chain |-> NoPromise, thrown |-> TypeError,
   invoked |-> <<>>, checks |-> {}, written |-> <<>>, pc |-> "done"]

deriveBits ==
  [promise |-> NoPromise, chain |-> NoPromise, thrown |-> TypeError,
   invoked |-> <<>>, checks |-> {}, written |-> <<>>, pc |-> "done"]

ImportedInvalid(result) ==
  result.type \in {"secret", "private"} /\ EmptyUsages(result.usages)

importKey(format, keyData, algorithm, extractable, keyUsages, b) ==
  LET normalizedAlgorithm == normalize("importKey", algorithm)
  IN IF normalizationFailed(normalizedAlgorithm)
     THEN Settled(Rejected(normalizedAlgorithm), <<>>, {})
     ELSE IF format \in {"raw", "pkcs8", "spki"} /\ keyData.bytes.kind = "jwk"
     THEN Settled(Rejected(TypeError), <<>>, {"format"})
     ELSE LET copy == slice(keyData)
              material == IF format = "jwk" THEN JsonWebKey(keyData.bytes) ELSE copy.bytes
              reads == IF format = "jwk" THEN <<>> ELSE <<copy>>
              out == Capability("importKey", normalizedAlgorithm.name, Undefined, material,
                                [format |-> format, extractable |-> extractable,
                                 keyUsages |-> keyUsages], b)
              inv == <<Invocation("importKey", normalizedAlgorithm.name, Undefined, reads, out)>>
              usages == normalizeUsages(keyUsages)
          IN IF out.threw THEN Settled(Rejected(out.value), inv, {"format"})
             ELSE IF ImportedInvalid(out.value)
             THEN Settled(Rejected(SyntaxError), inv, {"format"})
             ELSE IF usages.threw
             THEN [Settled(Rejected(usages.value), inv, {"format"})
                     EXCEPT !.written = <<Write("result", "extractable", extractable)>>]
             ELSE [Settled(Resolved([out.value EXCEPT !.extractable = extractable,
                                                      !.usages = usages.value]),
                           inv, {"format"})
                     EXCEPT !.written = <<Write("result", "extractable", extractable),
                                          Write("result", "usages", usages.value)>>]

exportKey(format, key, b) ==
  IF ~registeredForExport(key)
  THEN Settled(Rejected(NotSupportedError("dispatcher")), <<>>, {"registered"})
  ELSE IF notExtractable(key)
  THEN Settled(Rejected(InvalidAccessError), <<>>, {"registered", "extractable"})
  ELSE LET out == Capability("exportKey", key.algorithm.name, key, Undefined,
                             [format |-> format], b)
       IN Settled(Outcome(out),
                  <<Invocation("exportKey", key.algorithm.name, key, <<>>, out)>>,
                  {"registered", "extractable"})

(***************************************************************************)
(* wrapKey: the call, then the two callbacks of its promise chain          *)
(***************************************************************************)
Waiting(inner, chk, next) ==
  [promise |-> Pending, chain |-> inner.promise, thrown |-> Undefined,
   invoked |-> inner.invoked, checks |-> chk \cup inner.checks,
   written |-> inner.written, pc |-> next]

wrapNormalized(wrapAlgorithm) ==
  LET normalizedAlgorithm == normalize("wrapKey", wrapAlgorithm)
  IN IF normalizationFailed(normalizedAlgorithm) THEN normalize("encrypt", wrapAlgorithm)
     ELSE normalizedAlgorithm

wrapKey(format, key, wrappingKey, wrapAlgorithm, b) ==
  LET normalizedAlgorithm == wrapNormalized(wrapAlgorithm)
  IN IF normalizationFailed(normalizedAlgorithm)
     THEN Settled(Rejected(normalizedAlgorithm), <<>>, {})
     ELSE IF ~algorithmMatches(normalizedAlgorithm, wrappingKey)
     THEN Settled(Rejected(InvalidAccessError), <<>>, {"name"})
     ELSE IF ~usagePermits(wrappingKey, "wrapKey")
     THEN Settled(Rejected(InvalidAccessError), <<>>, {"name", "usage"})
     ELSE IF ~registeredForExport(key)
     THEN Settled(Rejected(NotSupportedError("dispatcher")), <<>>,
                  {"name", "usage", "registered"})
     ELSE IF notExtractable(key)
     THEN Settled(Rejected(InvalidAccessError), <<>>,
                  {"name", "usage", "registered", "extractable"})
     ELSE Waiting(exportKey(format, key, b),
                  {"name", "usage", "registered", "extractable"}, "wrapKey_then")

Stringify(exportedKey) == [kind |-> "json", jwk |-> exportedKey]

wrapCapabilityEncryptFirst(name) ==
  IF "encrypt" \in Capabilities(name) THEN "encrypt"
  ELSE IF "wrapKey" \in Capabilities(name) THEN "wrapKey"
  ELSE "none"

wrapCapability(name) ==
  \* the capability of the wrapping module that wrapKey calls
  IF "wrapKey" \in Capabilities(name) THEN "wrapKey"
  ELSE IF "encrypt" \in Capabilities(name) THEN "encrypt"
  ELSE "none"

wrapKeyThen(format, wrappingKey, wrapAlgorithm, exportedKey, b) ==
  \* the first callback, run when this.exportKey(format, key) has resolved
  LET normalizedAlgorithm == wrapNormalized(wrapAlgorithm)
      bytes == IF format \in {"raw", "pkcs8", "spki"} THEN exportedKey
               ELSE Stringify(exportedKey)
      cap == wrapCapability(normalizedAlgorithm.name)
      out == Capability(cap, normalizedAlgorithm.name, wrappingKey, bytes, NoArgs, b)
  IN IF cap = "none"
     THEN [reject |-> TRUE, error |-> NotSupportedError("dispatcher"),
           chain |-> Resolved(Undefined), invoked |-> <<>>]
     ELSE [reject |-> FALSE, error |-> Undefined, chain |-> Outcome(out),
           invoked |-> <<Invocation(cap, normalizedAlgorithm.name, wrappingKey, <<>>, out)>>]

(***************************************************************************)
(* unwrapKey: the call, then the three callbacks of its promise chain      *)
(***************************************************************************)
unwrapNormalized(unwrapAlgorithm) ==
  LET normalizedAlgorithm == normalize("unwrapKey", unwrapAlgorithm)
  IN IF normalizationFailed(normalizedAlgorithm) THEN normalize("decrypt", unwrapAlgorithm)
     ELSE normalizedAlgorithm

unwrapNormalizedKey(unwrapAlgorithm, unwrappedKeyAlgorithm) ==
  normalize("importKey", unwrapAlgorithm)

RECURSIVE unwrapKey(_, _, _, _, _, _, _, _)
unwrapKey(format, wrappedKey, unwrappingKey, unwrapAlgorithm, unwrappedKeyAlgorithm, extractable, keyUsages, b) ==
  LET normalizedAlgorithm == unwrapNormalized(unwrapAlgorithm)
      normalizedKeyAlgorithm == unwrapNormalizedKey(unwrapAlgorithm, unwrappedKeyAlgorithm)
  IN IF normalizationFailed(normalizedAlgorithm)
     THEN Settled(Rejected(normalizedAlgorithm), <<>>, {})
     ELSE IF normalizationFailed(normalizedKeyAlgorithm)
     THEN Settled(Rejected(normalizedKeyAlgorithm), <<>>, {})
     ELSE IF ~algorithmMatches(normalizedAlgorithm, unwrappingKey)
     THEN Settled(Rejected(InvalidAccessError), <<>>, {"name"})
     ELSE IF ~usagePermits(unwrappingKey, "unwrapKey")
     THEN Settled(Rejected(InvalidAccessError), <<>>, {"name", "usage"})
     ELSE IF "unwrapKey" \in Capabilities(normalizedAlgorithm.name)
     THEN \* this.unwrapKey(unwrapAlgorithm, unwrappingKey, wrappedKey)
          Waiting(unwrapKey(unwrapAlgorithm, unwrappingKey, wrappedKey, Undefined,
                            Undefined, Undefined, Undefined, b),
                  {"name", "usage"}, "unwrapKey_import")
     ELSE IF "decrypt" \in Capabilities(normalizedAlgorithm.name)
     THEN \* this.decrypt(unwrapAlgorithm, unwrappingKey, wrappedKey)
          Waiting(decrypt(unwrapAlgorithm, unwrappingKey, wrappedKey, b),
                  {"name", "usage"}, "unwrapKey_import")
     ELSE Settled(Rejected(NotSupportedError("dispatcher")), <<>>, {"name", "usage"})

unwrapKeyImport(format, unwrapAlgorithm, unwrappedKeyAlgorithm, extractable, keyUsages, key, b) ==
  \* the first callback, run when keyPromise has resolved with key
  LET normalizedKeyAlgorithm == unwrapNormalizedKey(unwrapAlgorithm, unwrappedKeyAlgorithm)
      parsed == format = "jwk" /\ key.kind = "json"
      bytes == IF format \in {"raw", "pkcs8", "spki"} THEN key
               ELSE IF parsed THEN key.jwk
               ELSE Undefined
      out == Capability("importKey", normalizedKeyAlgorithm.name, Undefined, bytes,
                        [format |-> format, extractable |-> extractable,
                         keyUsages |-> keyUsages], b)
  IN IF format = "jwk" /\ ~parsed
     THEN [chain |-> Rejected(Error("SyntaxError", "JSON.parse")), invoked |-> <<>>,
           console |-> <<>>]
     ELSE [chain |-> Outcome(out),
           invoked |-> <<Invocation("importKey", normalizedKeyAlgorithm.name, Undefined,
                                    <<>>, out)>>,
           console |-> IF format = "jwk" THEN <<bytes>> ELSE <<>>]

unwrapKeyFinish(extractable, keyUsages, result) ==
  \* the second callback, run when the import has resolved with result
  IF ImportedInvalid(result)
  THEN [resolve |-> FALSE, value |-> Undefined,
        chain |-> Rejected(Error("SyntaxError", "dispatcher")), written |-> <<>>]
  ELSE [resolve |-> TRUE,
        value |-> [result EXCEPT !.extractable = extractable, !.usages = keyUsages],
        chain |-> Resolved(Undefined),
        written |-> <<Write("result", "extractable", extractable),
                      Write("result", "usages", keyUsages)>>]

(***************************************************************************)
(* State machine                                                           *)
(***************************************************************************)
NoCall == [op |-> "none"]

Init ==
  /\ pc = "idle"
  /\ call = NoCall
  /\ promise = NoPromise
  /\ chain = NoPromise
  /\ thrown = Undefined
  /\ invoked = <<>>
  /\ checks = {}
  /\ console = <<>>
  /\ buffers = {}
  /\ written = <<>>

OctetInputs(c) ==
  \* the caller's buffers among the arguments of call c
  CASE c.op \in {"encrypt", "decrypt", "sign", "digest"} -> {Buffer(<<"data">>, c.data)}
    [] c.op = "verify" -> {Buffer(<<"signature">>, c.signature), Buffer(<<"data">>, c.data)}
    [] c.op = "importKey" ->
         IF c.keyData.kind = "jwk" THEN {} ELSE {Buffer(<<"keyData">>, c.keyData)}
    [] c.op = "unwrapKey" -> {Buffer(<<"wrappedKey">>, c.wrappedKey)}
    [] OTHER -> {}

Heap(inputs, inv) ==
  \* the buffer objects alive when the call returns: the caller's, and the ones
  \* the capabilities were handed
  inputs \cup UNION {{inv[i].reads[j] : j \in DOMAIN inv[i].reads} : i \in DOMAIN inv}

Enter(c, frame) ==
  /\ call' = c
  /\ promise' = frame.promise
  /\ chain' = frame.chain
  /\ thrown' = frame.thrown
  /\ invoked' = frame.invoked
  /\ checks' = frame.checks
  /\ pc' = frame.pc
  /\ console' = <<>>
  /\ buffers' = Heap(OctetInputs(c), frame.invoked)
  /\ written' = frame.written

Encrypt ==
  /\ pc = "idle"
  /\ \E algorithm \in Algorithms, key \in InputKeys, data \in Data, b \in Behaviours :
    Enter([op |-> "encrypt", algorithm |-> algorithm, key |-> key, data |-> data],
             encrypt(algorithm, key, Buffer(<<"data">>, data), b))

Decrypt ==
  /\ pc = "idle"
  /\ \E algorithm \in Algorithms, key \in InputKeys, h \in Handles, data \in Data, b \in Behaviours :
    LET input == Ciphertext("AES-GCM", [handle |-> h], data)
    IN Enter([op |-> "decrypt", algorithm |-> algorithm, key |-> key, data |-> input],
                decrypt(algorithm, key, Buffer(<<"data">>, input), b))

Sign ==
  /\ pc = "idle"
  /\ \E algorithm \in Algorithms, key \in InputKeys, data \in Data, b \in Behaviours :
    Enter([op |-> "sign", algorithm |-> algorithm, key |-> key, data |-> data],
             sign(algorithm, key, Buffer(<<"data">>, data), b))

Verify ==
  /\ pc = "idle"
  /\ \E alg \in Algorithms, key \in InputKeys, h \in Handles, data \in Data, b \in Behaviours :
    LET signature == [kind |-> "signature", alg |-> "RSASSA-PKCS1-v1_5",
                      handle |-> h, of |-> data]
    IN Enter([op |-> "verify", algorithm |-> alg, key |-> key,
                 signature |-> signature, data |-> data],
                verify(alg, key, Buffer(<<"signature">>, signature),
                       Buffer(<<"data">>, data), b))

Digest ==
  /\ pc = "idle"
  /\ \E algorithm \in Algorithms, data \in Data, b \in Behaviours :
    Enter([op |-> "digest", algorithm |-> algorithm, data |-> data],
             digest(algorithm, Buffer(<<"data">>, data), b))

GenerateKey ==
  /\ pc = "idle"
  /\ \E algorithm \in Algorithms, extractable \in BOOLEAN, keyUsages \in ArgUsageLists,
     b \in GenerateBehaviours :
    Enter([op |-> "generateKey", algorithm |-> algorithm, extractable |-> extractable,
              keyUsages |-> keyUsages],
             generateKey(algorithm, extractable, keyUsages, b))

DeriveKey ==
  /\ pc = "idle"
  /\ \E algorithm \in Algorithms, baseKey \in InputKeys :
    Enter([op |-> "deriveKey", algorithm |-> algorithm, key |-> baseKey], deriveKey)

DeriveBits ==
  /\ pc = "idle"
  /\ \E algorithm \in Algorithms, baseKey \in InputKeys :
    Enter([op |-> "deriveBits", algorithm |-> algorithm, key |-> baseKey], deriveBits)

ImportMaterial ==
  Data \cup {KeyData(f, k) : f \in {"raw", "jwk"}, k \in {x \in InputKeys : x.extractable}}

ImportKey ==
  /\ pc = "idle"
  /\ \E format \in Formats, keyData \in ImportMaterial, algorithm \in Algorithms,
     extractable \in BOOLEAN, keyUsages \in ArgUsageLists, b \in ImportBehaviours :
    Enter([op |-> "importKey", format |-> format, keyData |-> keyData,
              algorithm |-> algorithm, extractable |-> extractable, keyUsages |-> keyUsages],
             importKey(format, Buffer(<<"keyData">>, keyData), algorithm, extractable,
                       keyUsages, b))

ExportKey ==
  /\ pc = "idle"
  /\ \E format \in Formats, key \in InputKeys, b \in Behaviours :
    Enter([op |-> "exportKey", format |-> format, key |-> key],
             exportKey(format, key, b))

WrapKey ==
  /\ pc = "idle"
  /\ \E format \in Formats, key \in InputKeys, wrappingKey \in InputKeys,
        wrapAlgorithm \in Algorithms, b \in Behaviours :
       Enter([op |-> "wrapKey", format |-> format, key |-> key,
              wrappingKey |-> wrappingKey, algorithm |-> wrapAlgorithm],
             wrapKey(format, key, wrappingKey, wrapAlgorithm, b))

WrapKeyThen ==
  /\ pc = "wrapKey_then"
  /\ pc' = "wrapKey_resolve"
  /\ \/ /\ chain.state = "resolved"
        /\ \E b \in Behaviours :
             LET then == wrapKeyThen(call.format, call.wrappingKey, call.algorithm,
                                     chain.value, b)
             IN /\ chain' = then.chain
                /\ invoked' = invoked \o then.invoked
                /\ promise' = IF then.reject THEN Rejected(then.error) ELSE promise
     \/ /\ chain.state = "rejected"
        /\ UNCHANGED <<chain, invoked, promise>>
  /\ UNCHANGED <<call, thrown, checks, console, buffers, written>>

WrapKeyResolve ==
  /\ pc = "wrapKey_resolve"
  /\ pc' = "done"
  /\ promise' = IF chain.state = "resolved" /\ promise.state = "pending"
                THEN Resolved(chain.value)
                ELSE promise
  /\ UNCHANGED <<call, chain, thrown, invoked, checks, console, buffers, written>>

Junk == Bytes(0)

UnwrapKey ==
  /\ pc = "idle"
  /\ \E format \in Formats, unwrappingKey \in InputKeys, unwrapAlgorithm \in Algorithms,
        unwrappedKeyAlgorithm \in Algorithms, extractable \in BOOLEAN,
        keyUsages \in ArgUsageLists, b \in Behaviours :
       Enter([op |-> "unwrapKey", format |-> format, wrappedKey |-> Junk,
              unwrappingKey |-> unwrappingKey, algorithm |-> unwrapAlgorithm,
              unwrappedKeyAlgorithm |-> unwrappedKeyAlgorithm,
              extractable |-> extractable, keyUsages |-> keyUsages],
             unwrapKey(format, Buffer(<<"wrappedKey">>, Junk), unwrappingKey,
                       unwrapAlgorithm, unwrappedKeyAlgorithm, extractable, keyUsages, b))

UnwrapKeyWrapped ==
  \* the caller passes what wrapKey resolved with to unwrapKey, with the same format,
  \* key and algorithm
  /\ pc = "done"
  /\ call.op = "wrapKey"
  /\ promise.state = "resolved"
  /\ \E unwrappedKeyAlgorithm \in Algorithms, extractable \in BOOLEAN,
        keyUsages \in ArgUsageLists, b \in Behaviours :
       Enter([op |-> "unwrapKey", format |-> call.format, wrappedKey |-> promise.value,
              unwrappingKey |-> call.wrappingKey, algorithm |-> call.algorithm,
              unwrappedKeyAlgorithm |-> unwrappedKeyAlgorithm,
              extractable |-> extractable, keyUsages |-> keyUsages],
             unwrapKey(call.format, Buffer(<<"wrappedKey">>, promise.value),
                       call.wrappingKey, call.algorithm, unwrappedKeyAlgorithm, extractable,
                       keyUsages, b))

UnwrapKeyImport ==
  /\ pc = "unwrapKey_import"
  /\ pc' = "unwrapKey_finish"
  /\ \/ /\ chain.state = "resolved"
        /\ \E b \in ImportBehaviours :
             LET then == unwrapKeyImport(call.format, call.algorithm,
                                         call.unwrappedKeyAlgorithm, call.extractable,
                                         call.keyUsages, chain.value, b)
             IN /\ chain' = then.chain
                /\ invoked' = invoked \o then.invoked
                /\ console' = console \o then.console
     \/ /\ chain.state = "rejected"
        /\ UNCHANGED <<chain, invoked, console>>
  /\ UNCHANGED <<call, promise, thrown, checks, buffers, written>>

UnwrapKeyFinish ==
  /\ pc = "unwrapKey_finish"
  /\ pc' = "unwrapKey_catch"
  /\ \/ /\ chain.state = "resolved"
        /\ LET then == unwrapKeyFinish(call.extractable, call.keyUsages, chain.value)
           IN /\ chain' = then.chain
              /\ promise' = IF then.resolve THEN Resolved(then.value) ELSE promise
              /\ written' = written \o then.written
     \/ /\ chain.state = "rejected"
        /\ UNCHANGED <<chain, promise, written>>
  /\ UNCHANGED <<call, thrown, invoked, checks, console, buffers>>

UnwrapKeyCatch ==
  /\ pc = "unwrapKey_catch"
  /\ pc' = "done"
  /\ \/ /\ chain.state = "rejected"
        /\ console' = Append(console, chain.value)
        /\ chain' = Resolved(Undefined)
     \/ /\ chain.state = "resolved"
        /\ UNCHANGED <<chain, console>>
  /\ UNCHANGED <<call, promise, thrown, invoked, checks, buffers, written>>

Return ==
  /\ pc = "done"
  /\ pc' = "idle"
  /\ call' = NoCall
  /\ promise' = NoPromise
  /\ chain' = NoPromise
  /\ thrown' = Undefined
  /\ invoked' = <<>>
  /\ checks' = {}
  /\ console' = <<>>
  /\ buffers' = {}
  /\ written' = <<>>

Next ==
  \/ Encrypt
  \/ Decrypt
  \/ Sign
  \/ Verify
  \/ Digest
  \/ GenerateKey
  \/ DeriveKey
  \/ DeriveBits
  \/ ImportKey
  \/ ExportKey
  \/ WrapKey
  \/ WrapKeyThen
  \/ WrapKeyResolve
  \/ UnwrapKey
  \/ UnwrapKeyWrapped
  \/ UnwrapKeyImport
  \/ UnwrapKeyFinish
  \/ UnwrapKeyCatch
  \/ Return

Spec == Init /\ [][Next]_vars

(***************************************************************************)
(* The caller is free to overwrite its own buffers once the call has       *)
(* returned                                                                *)
(***************************************************************************)
Scribbled == Bytes(-1)

Mutate ==
  /\ pc # "idle"
  /\ \E buffer \in buffers :
       /\ Len(buffer.object) = 1
       /\ buffer.bytes # Scribbled
       /\ buffers' = (buffers \ {buffer}) \cup {Buffer(buffer.object, Scribbled)}
  /\ UNCHANGED <<pc, call, promise, chain, thrown, invoked, checks, console, written>>

NextMutation ==
  \/ Next
  \/ Mutate

SpecMutation == Init /\ [][NextMutation]_vars

(***************************************************************************)
(* Properties                                                              *)
(***************************************************************************)
UsageGated == {"encrypt", "decrypt", "sign", "verify", "wrapKey", "unwrapKey"}

DescriptorOps == UsageGated \cup {"digest", "generateKey", "importKey"}

GateKey ==
  \* the key whose usages the operation in flight must check
  IF call.op = "wrapKey" THEN call.wrappingKey
  ELSE IF call.op = "unwrapKey" THEN call.unwrappingKey
  ELSE call.key

NormalizationResults ==
  \* what each normalization made by the call in flight returns, in the order made
  CASE call.op = "wrapKey" ->
         LET first == normalize("wrapKey", call.algorithm)
         IN IF IsError(first) THEN <<first, normalize("encrypt", call.algorithm)>>
            ELSE <<first>>
    [] call.op = "unwrapKey" ->
         LET first == normalize("unwrapKey", call.algorithm)
             second == normalize("decrypt", call.algorithm)
             leg == IF IsError(first) THEN <<first, second>> ELSE <<first>>
         IN IF IsError(leg[Len(leg)]) THEN leg
            ELSE leg \o <<normalize("importKey", call.algorithm)>>
    [] OTHER -> <<normalize(call.op, call.algorithm)>>

NormalizationErrors ==
  {NormalizationResults[i] : i \in {j \in DOMAIN NormalizationResults :
                                      IsError(NormalizationResults[j])}}

Normalizes ==
  \* the call gets a parameter record for the operation: the last normalization
  \* of the (un)wrapping descriptor succeeds, and so does the one for the import
  /\ call.op \in DescriptorOps
  /\ \/ call.op \notin {"wrapKey", "unwrapKey"} /\ NormalizationErrors = {}
     \/ call.op = "wrapKey" /\ ~IsError(NormalizationResults[Len(NormalizationResults)])
     \/ /\ call.op = "unwrapKey"
        /\ ~IsError(NormalizationResults[Len(NormalizationResults)])
        /\ ~IsError(NormalizationResults[Len(NormalizationResults) - 1])

NormalizedName ==
  \* the name of the parameter record the (un)wrapping, or only, descriptor gives
  IF call.op = "unwrapKey"
  THEN NormalizationResults[Len(NormalizationResults) - 1].name
  ELSE NormalizationResults[Len(NormalizationResults)].name

\* C1: when normalization succeeds and the checked key's usages lack the usage
\* named after the operation, the promise is rejected with InvalidAccessError
\* and no module capability has been invoked.
C1_UsageGate ==
  (call.op \in UsageGated /\ Normalizes /\ ~includes(GateKey.usages, call.op))
    => /\ promise = Rejected(InvalidAccessError)
       /\ thrown = Undefined
       /\ invoked = <<>>

C1_Witness ==
  /\ call.op = "unwrapKey"
  /\ Normalizes
  /\ NormalizedName = GateKey.algorithm.name
  /\ ~includes(GateKey.usages, "unwrapKey")
  /\ promise = Rejected(InvalidAccessError)

\* C2 as stated: exportKey and wrapKey of a non-extractable key reject with
\* InvalidAccessError whatever the other arguments are.
C2_Original ==
  (call.op \in {"exportKey", "wrapKey"} /\ call.key.extractable = FALSE)
    => promise = Rejected(InvalidAccessError)

\* C2 as amended: exportKey and wrapKey of a non-extractable key reject; the
\* error is InvalidAccessError when the key's algorithm is registered for
\* exportKey and (for wrapKey) the wrap algorithm normalizes, and otherwise it
\* is the NotSupportedError of the earlier step, or the InvalidAccessError of
\* the checks of the wrapping key.
C2_ExtractableGate ==
  (call.op \in {"exportKey", "wrapKey"} /\ call.key.extractable = FALSE)
    => /\ promise.state = "rejected"
       /\ thrown = Undefined
       /\ IF /\ call.key.algorithm.name \in supportedAlgorithms["exportKey"]
             /\ call.op = "wrapKey" => Normalizes
          THEN promise.value = InvalidAccessError
          ELSE \/ promise.value.name = "NotSupportedError"
               \/ call.op = "wrapKey" /\ Normalizes /\ promise.value = InvalidAccessError

C2_Witness ==
  /\ call.op = "wrapKey"
  /\ call.key.extractable = FALSE
  /\ "extractable" \in checks
  /\ promise = Rejected(InvalidAccessError)

\* C3: the exportKey capability of a module is only ever invoked on an
\* extractable key, and exportKey and wrapKey only resolve for an extractable key.
C3_NoExportOfNonExtractable ==
  /\ \A i \in DOMAIN invoked :
       invoked[i].cap = "exportKey" => invoked[i].key.extractable = TRUE
  /\ (call.op \in {"exportKey", "wrapKey"} /\ promise.state = "resolved")
       => call.key.extractable = TRUE

C3_Witness ==
  /\ call.op = "wrapKey"
  /\ promise.state = "resolved"
  /\ \E i \in DOMAIN invoked : invoked[i].cap = "exportKey" /\ invoked[i].key = call.key

\* C4: when a normalization made by the call yields an error that ends the
\* call, nothing is thrown, the promise is rejected with a normalization error
\* of the call (NotSupportedError for an unregistered name), and no key check
\* and no module capability has run.
C4_NormalizationFirst ==
  (call.op \in DescriptorOps /\ ~Normalizes)
    => /\ thrown = Undefined
       /\ promise.state = "rejected"
       /\ promise.value \in NormalizationErrors
       /\ (call.algorithm.name \notin AlgorithmNames
             => promise.value.name = "NotSupportedError")
       /\ checks = {}
       /\ invoked = <<>>

C4_Witness ==
  /\ call.op = "encrypt"
  /\ call.algorithm.name = "ZZZ"
  /\ ~includes(call.key.usages, "encrypt")
  /\ promise.state = "rejected"
  /\ promise.value.name = "NotSupportedError"

Unwrapped ==
  \* the key material inside the wrapped key of the unwrapKey call in flight
  IF call.wrappedKey.pt.kind = "json" THEN call.wrappedKey.pt.jwk
  ELSE call.wrappedKey.pt

RoundTrip ==
  \* the call in flight is unwrapKey(fmt, wrapKey(fmt, k, wk, alg), wk, alg,
  \* k.algorithm, k.extractable, k.usages)
  /\ call.op = "unwrapKey"
  /\ call.wrappedKey.kind = "cipher"
  /\ includes(call.unwrappingKey.usages, "wrapKey")
  /\ includes(call.unwrappingKey.usages, "unwrapKey")
  /\ call.unwrappedKeyAlgorithm = Algorithm(Unwrapped.algorithm.name)
  /\ Unwrapped.algorithm.name \in supportedAlgorithms["importKey"]
  /\ call.extractable = TRUE
  /\ call.keyUsages \in KeyUsageLists

ModulesHonest ==
  \* no capability raised, and importKey gave the key the usages asked for
  \A i \in DOMAIN invoked :
    /\ ~invoked[i].out.threw
    /\ invoked[i].cap = "importKey" => invoked[i].out.value.usages = call.keyUsages

\* C5: a wrapKey / unwrapKey round trip resolves with a key equivalent to the
\* wrapped one (type, algorithm name, extractable, usages, key material),
\* given modules whose decrypt inverts encrypt and importKey inverts exportKey.
C5_RoundTrip ==
  (RoundTrip /\ ModulesHonest /\ pc = "done")
    => promise = Resolved(CryptoKey(Unwrapped.type, TRUE, Unwrapped.algorithm.name,
                                    call.keyUsages, Unwrapped.handle))

\* C6: when the unwrap algorithm normalizes, names the unwrapping key's
\* algorithm and the key has the unwrapKey usage, the call, once run to its
\* end, has not failed with InvalidAccessError and has invoked the module's
\* unwrapKey or decrypt capability for the plaintext, with or without the
\* decrypt usage.
C6_UnwrapUsageOnly ==
  ( /\ call.op = "unwrapKey"
    /\ pc = "done"
    /\ Normalizes
    /\ NormalizedName = call.unwrappingKey.algorithm.name
    /\ includes(call.unwrappingKey.usages, "unwrapKey")
    /\ Capabilities(NormalizedName) \cap {"unwrapKey", "decrypt"} # {} )
    => /\ promise # Rejected(InvalidAccessError)
       /\ \E i \in DOMAIN invoked :
            /\ invoked[i].cap \in {"unwrapKey", "decrypt"}
            /\ invoked[i].module = NormalizedName

\* C7: once the call has run to its end, every exception a module capability
\* raised during it is the error its promise is rejected with.
C7_ModuleErrorsRejected ==
  pc = "done"
    => \A i \in DOMAIN invoked :
         invoked[i].out.threw => promise = Rejected(invoked[i].out.value)

\* C8: every call returns a promise, and when the call has run to its end the
\* promise is settled, resolved or rejected.
C8_Settles ==
  pc = "done" => thrown = Undefined /\ promise.state \in {"resolved", "rejected"}

\* C9: when normalization succeeds and the normalized name differs from the
\* checked key's algorithm name, the promise is rejected with
\* InvalidAccessError and no module capability has been invoked, also when
\* the key carries the usage.
C9_NameMismatch ==
  (call.op \in UsageGated /\ Normalizes /\ NormalizedName # GateKey.algorithm.name)
    => /\ promise = Rejected(InvalidAccessError)
       /\ thrown = Undefined
       /\ invoked = <<>>

C9_Witness ==
  /\ call.op = "wrapKey"
  /\ Normalizes
  /\ NormalizedName # GateKey.algorithm.name
  /\ includes(GateKey.usages, "wrapKey")
  /\ promise = Rejected(InvalidAccessError)

\* C10: when the module's generateKey returns a secret or private Key with
\* empty usages, or a KeyPair whose privateKey has empty usages, the promise
\* is rejected with SyntaxError; whatever else it returns is what the promise
\* is resolved with.
C10_GeneratePostValidation ==
  (call.op = "generateKey" /\ invoked # <<>> /\ ~invoked[1].out.threw)
    => LET result == invoked[1].out.value
       IN IF \/ /\ result.kind = "key"
                /\ result.type \in {"secret", "private"}
                /\ result.usages = <<>>
             \/ /\ result.kind = "pair"
                /\ result.privateKey.usages = <<>>
          THEN promise.state = "rejected" /\ promise.value.name = "SyntaxError"
          ELSE promise = Resolved(result)

C10_Witness ==
  /\ call.op = "generateKey"
  /\ invoked # <<>>
  /\ ~invoked[1].out.threw
  /\ invoked[1].out.value.kind = "pair"
  /\ invoked[1].out.value.privateKey.usages = <<>>
  /\ promise.state = "rejected"
  /\ promise.value.name = "SyntaxError"

FormatMismatch ==
  \* the key material of the importKey call in flight has the wrong shape for its format
  \/ call.format \in {"raw", "pkcs8", "spki"} /\ call.keyData.kind = "jwk"
  \/ call.format = "jwk" /\ call.keyData.kind = "bytes"

\* C11: when the algorithm of an importKey call normalizes and the key material
\* is a JSON Web Key under format raw, pkcs8 or spki, or an octet buffer under
\* format jwk, the promise is rejected with TypeError and the module's
\* importKey capability has not been invoked.
C11_FormatGate ==
  (call.op = "importKey" /\ Normalizes /\ FormatMismatch)
    => /\ promise = Rejected(TypeError)
       /\ invoked = <<>>

CallerBytes(object) ==
  \* the bytes the caller's buffer of that name held when the call was made
  (CHOOSE buffer \in OctetInputs(call) : buffer.object = object).bytes

\* C12: every buffer a module capability is handed for an octet input of the
\* call is a copy made before the call returned, not the caller's buffer, and
\* whatever the caller writes into its own buffers afterwards, the copy holds
\* the bytes the caller's buffer held when the call was made; the outcome the
\* module gave is the one recorded for those bytes.
C12_InputIsolation ==
  \A i \in DOMAIN invoked : \A j \in DOMAIN invoked[i].reads :
    LET read == invoked[i].reads[j]
    IN /\ \A buffer \in OctetInputs(call) : buffer.object # read.object
       /\ read \in buffers
       /\ read.bytes = CallerBytes(<<read.object[1]>>)
       /\ read.bytes # Scribbled

C12_Witness ==
  /\ call.op = "unwrapKey"
  /\ Buffer(<<"wrappedKey">>, Scribbled) \in buffers
  /\ \E i \in DOMAIN invoked :
       /\ invoked[i].cap = "decrypt"
       /\ invoked[i].reads = <<Buffer(<<"wrappedKey", "slice">>, call.wrappedKey)>>
  /\ promise.state = "resolved"

\* C13: in an unwrapKey call whose unwrapAlgorithm normalizes, (i) when
\* unwrappedKeyAlgorithm does not normalize under importKey the call, run to
\* its end, is rejected; (ii) when it does, the call is not rejected with the
\* error of normalizing unwrapAlgorithm under importKey; (iii) every importKey
\* capability invoked is the one of unwrappedKeyAlgorithm's module.
C13_ImportModule ==
  (call.op = "unwrapKey" /\ ~IsError(unwrapNormalized(call.algorithm)))
    => LET normalizedKeyAlgorithm == normalize("importKey", call.unwrappedKeyAlgorithm)
       IN /\ (IsError(normalizedKeyAlgorithm) /\ pc = "done")
               => promise.state = "rejected"
          /\ ~IsError(normalizedKeyAlgorithm)
               => promise # Rejected(normalize("importKey", call.algorithm))
          /\ \A i \in DOMAIN invoked :
               invoked[i].cap = "importKey"
                 => invoked[i].module = call.unwrappedKeyAlgorithm.name

Invocations(cap, name) ==
  \* how many times the call in flight has invoked that capability of that module
  Cardinality({i \in DOMAIN invoked : invoked[i].cap = cap /\ invoked[i].module = name})

\* C14: an unwrapKey call that passes normalization and the checks of the
\* unwrapping key, once run to its end, has invoked the unwrapKey capability
\* of the unwrapping module exactly once when the module exposes it, and the
\* module's decrypt only when unwrapKey is not exposed.
C14_UnwrapCapability ==
  ( /\ call.op = "unwrapKey"
    /\ pc = "done"
    /\ Normalizes
    /\ NormalizedName = call.unwrappingKey.algorithm.name
    /\ includes(call.unwrappingKey.usages, "unwrapKey") )
    => IF "unwrapKey" \in Capabilities(NormalizedName)
       THEN /\ Invocations("unwrapKey", NormalizedName) = 1
            /\ Invocations("decrypt", NormalizedName) = 0
       ELSE Invocations("unwrapKey", NormalizedName) = 0

Exported ==
  \* the export leg of the wrapKey call in flight has given the key material
  \E i \in DOMAIN invoked : invoked[i].cap = "exportKey" /\ ~invoked[i].out.threw

Wrapping ==
  \* the invocations of wrapKey and encrypt capabilities made by the call in flight
  {i \in DOMAIN invoked : invoked[i].cap \in {"wrapKey", "encrypt"}}

\* C15: a wrapKey call that has passed validation and export invokes at most
\* one capability among wrapKey and encrypt, of the wrapping module: once run
\* to its end it has invoked wrapKey once when the module exposes it, else
\* encrypt once when the module exposes that, else neither, and is then
\* rejected with NotSupportedError; when the capability invoked returns, the
\* promise is resolved with exactly what it returned.
C15_WrapCapability ==
  (call.op = "wrapKey" /\ Exported)
    => LET caps == Capabilities(NormalizedName)
           expected == IF "wrapKey" \in caps THEN "wrapKey"
                       ELSE IF "encrypt" \in caps THEN "encrypt"
                       ELSE "none"
       IN /\ Cardinality(Wrapping) <= 1
          /\ \A i \in Wrapping :
               invoked[i].cap = expected /\ invoked[i].module = NormalizedName
          /\ pc = "done"
               => /\ expected # "none" => Cardinality(Wrapping) = 1
                  /\ expected = "none"
                       => /\ promise.state = "rejected"
                          /\ promise.value.name = "NotSupportedError"
                  /\ \A i \in Wrapping :
                       ~invoked[i].out.threw => promise = Resolved(invoked[i].out.value)

C15_Witness ==
  /\ call.op = "wrapKey"
  /\ pc = "done"
  /\ Exported
  /\ {"wrapKey", "encrypt"} \subseteq Capabilities(NormalizedName)
  /\ \E i \in Wrapping :
       /\ invoked[i].cap = "wrapKey"
       /\ ~invoked[i].out.threw
       /\ promise = Resolved(invoked[i].out.value)

ImportedWithoutUsages ==
  \* the import module has returned a secret or private key with empty usages
  \E i \in DOMAIN invoked :
    /\ invoked[i].cap = "importKey"
    /\ ~invoked[i].out.threw
    /\ invoked[i].out.value.type \in {"secret", "private"}
    /\ invoked[i].out.value.usages = <<>>

\* C16: when the import module of an unwrapKey call has returned a secret or
\* private key with empty usages, the call, once run to its end, is rejected
\* with SyntaxError (and so has not delivered that key).
C16_UnwrapPostValidation ==
  (call.op = "unwrapKey" /\ pc = "done" /\ ImportedWithoutUsages)
    => /\ promise.state = "rejected"
       /\ promise.value.name = "SyntaxError"

\* C17: every key that a generateKey, importKey or unwrapKey promise is
\* resolved with and whose type is secret or private, alone or as the private
\* key of a pair, has non-empty usages, whatever keyUsages list the caller gave.
C17_ProducedKeysHaveUsages ==
  (call.op \in {"generateKey", "importKey", "unwrapKey"} /\ promise.state = "resolved")
    => LET result == promise.value
       IN IF result.kind = "pair" THEN result.privateKey.usages # <<>>
          ELSE result.type \in {"secret", "private"} => result.usages # <<>>

\* C18: when wrapAlgorithm normalizes neither under wrapKey nor under encrypt,
\* the promise is rejected with the error of the first normalization, the one
\* under wrapKey.
C18_OriginalError ==
  ( /\ call.op = "wrapKey"
    /\ IsError(normalize("wrapKey", call.algorithm))
    /\ IsError(normalize("encrypt", call.algorithm)) )
    => promise = Rejected(normalize("wrapKey", call.algorithm))

Tokens(list) == {list[i] : i \in DOMAIN list}

ImportedValidKey ==
  \* the import module has returned a key that passes the post-validation
  \E i \in DOMAIN invoked :
    /\ invoked[i].cap = "importKey"
    /\ ~invoked[i].out.threw
    /\ ~(invoked[i].out.value.type \in {"secret", "private"}
           /\ invoked[i].out.value.usages = <<>>)

\* C19: the key an importKey or unwrapKey promise is resolved with carries
\* the caller's keyUsages without duplicates and only tokens of the recognized
\* vocabulary; when keyUsages holds an unknown token and the import module
\* has returned a valid key, the call, once run to its end, is rejected with
\* SyntaxError.
C19_UsagesNormalized ==
  call.op \in {"importKey", "unwrapKey"}
    => /\ promise.state = "resolved"
            => /\ Tokens(promise.value.usages) = Tokens(call.keyUsages)
               /\ Tokens(promise.value.usages) \subseteq recognizedKeyUsages
               /\ Len(promise.value.usages) = Cardinality(Tokens(call.keyUsages))
       /\ ( /\ pc = "done"
            /\ ImportedValidKey
            /\ ~(Tokens(call.keyUsages) \subseteq recognizedKeyUsages) )
            => /\ promise.state = "rejected"
               /\ promise.value.name = "SyntaxError"

ArgumentKeys ==
  \* the Keys the call in flight was passed, each with the name of its parameter
  CASE call.op \in {"encrypt", "decrypt", "sign", "verify", "exportKey", "deriveKey",
                    "deriveBits"} -> {[object |-> "key", key |-> call.key]}
    [] call.op = "wrapKey" -> {[object |-> "key", key |-> call.key],
                               [object |-> "wrappingKey", key |-> call.wrappingKey]}
    [] call.op = "unwrapKey" -> {[object |-> "unwrappingKey", key |-> call.unwrappingKey]}
    [] OTHER -> {}

Assigned(key, object) ==
  \* the Key object, which held key, after the assignments made to it so far
  LET RECURSIVE Go(_, _)
      Go(k, i) == IF i > Len(written) THEN k
                  ELSE IF written[i].object = object
                  THEN Go([k EXCEPT ![written[i].field] = written[i].value], i + 1)
                  ELSE Go(k, i + 1)
  IN Go(key, 1)

Produced ==
  \* the Key the import module returned to the call in flight
  LET i == CHOOSE i \in DOMAIN invoked : invoked[i].cap = "importKey"
  IN invoked[i].out.value

\* C20: every assignment the dispatcher makes to a Key is to the extractable
\* or the usages field of the Key the module has just produced for importKey
\* or unwrapKey, each field at most once; every Key passed as an argument is,
\* after the assignments, as it was passed, whether the call succeeds or
\* fails; and the key the promise is resolved with is the produced one with
\* those two assignments.
C20_KeyFrame ==
  /\ \A i \in DOMAIN written :
       /\ written[i].object = "result"
       /\ written[i].field \in {"extractable", "usages"}
       /\ call.op \in {"importKey", "unwrapKey"}
       /\ \A j \in DOMAIN written : j # i => written[j].field # written[i].field
  /\ \A argument \in ArgumentKeys : Assigned(argument.key, argument.object) = argument.key
  /\ (call.op \in {"importKey", "unwrapKey"} /\ promise.state = "resolved")
       => /\ Len(written) = 2
          /\ promise.value = Assigned(Produced, "result")

C20_Witness ==
  /\ call.op = "unwrapKey"
  /\ promise.state = "resolved"
  /\ Len(written) = 2
  /\ promise.value # Produced
  /\ includes(call.unwrappingKey.usages, "decrypt")

====
